---- MODULE Spec2Model ----
(***************************************************************************)
(* Model of the two line-delimited JSON-RPC stdio servers of the           *)
(* repository: src/scripts/server.py (five methods, streaming call_stream  *)
(* tool) and src/server.py (three methods, hello only).  One input line is *)
(* read per loop iteration; the handler runs on the reading thread, so an  *)
(* iteration is one step except where handle_call_stream writes a chunk    *)
(* and then sleeps.  An uncaught Python exception ends the process.        *)
(***************************************************************************)
EXTENDS Integers, Sequences, FiniteSets, TLC

(* ---------------- bounds ---------------- *)
MaxLines == 2
MaxCount == 2

(* ---------------- JSON / Python values ---------------- *)
\* a member that is not present in a JSON object
Absent == [t |-> "absent"]
\* JSON null, which json.loads turns into Python None and json.dumps back
None == [t |-> "null"]
JNum(n) == [t |-> "num", n |-> n]
JStr(s) == [t |-> "str", s |-> s]

\* dict.get(key, default) on a decoded JSON object
Get(o, k, d) == IF o[k] = Absent THEN d ELSE o[k]

\* str() as used by the f-strings
PyStr(v) ==
  CASE v.t = "str" -> v.s
    [] v.t = "num" -> ToString(v.n)
    [] v.t = "null" -> "None"
    [] OTHER -> "{}"

\* the decimal strings the inputs use, for int("...") and float("...")
Digits == [s \in {"0", "1", "2", "3"} |->
             CASE s = "0" -> 0 [] s = "1" -> 1 [] s = "2" -> 2 [] s = "3" -> 3]

\* int(x) / float(x): a number converts, a decimal string parses, any other
\* string is a ValueError and None is a TypeError
PyNumber(v) ==
  CASE v.t = "num" -> [raised |-> "none", n |-> v.n]
    [] v.t = "str" -> IF v.s \in DOMAIN Digits
                        THEN [raised |-> "none", n |-> Digits[v.s]]
                        ELSE [raised |-> "ValueError", n |-> 0]
    [] OTHER -> [raised |-> "TypeError", n |-> 0]

(* ---------------- the decoded shapes the inputs use ---------------- *)
EmptyArgs == [t |-> "obj", name |-> Absent, count |-> Absent, delay |-> Absent]
EmptyParams == [t |-> "obj", name |-> Absent, arguments |-> Absent, message |-> Absent]
EmptyMessage == [t |-> "obj", content |-> Absent]

Ids == {Absent, None, JNum(1), JNum(2)}
CountValues == {Absent, JStr("abc"), JStr("2")} \cup {JNum(n) : n \in (-1)..MaxCount}
DelayValues == {Absent, JNum(0), JNum(-1), JStr("soon")}

HelloArguments == {Absent, None, [EmptyArgs EXCEPT !.name = JStr("Ada")]}
StreamArguments ==
  {Absent, None} \cup
  {[EmptyArgs EXCEPT !.count = c, !.delay = d] : c \in CountValues, d \in DelayValues}

ToolCallParams ==
  {Absent, None, EmptyParams}
  \cup {[EmptyParams EXCEPT !.name = JStr("hello"), !.arguments = a] : a \in HelloArguments}
  \cup {[EmptyParams EXCEPT !.name = JStr("call_stream"), !.arguments = a] : a \in StreamArguments}
  \cup {[EmptyParams EXCEPT !.name = JStr("missing_tool")]}

ChatParams ==
  {Absent, None, [EmptyParams EXCEPT !.message = [EmptyMessage EXCEPT !.content = JStr("hi")]]}

Request(id, method, params) == [t |-> "obj", id |-> id, method |-> method, params |-> params]

Requests ==
  {Request(id, m, Absent) :
     id \in Ids, m \in {Absent, JStr("initialize"), JStr("tools/list"),
                        JStr("shutdown"), JStr("foo")}}
  \cup {Request(id, JStr("tools/call"), p) : id \in Ids, p \in ToolCallParams}
  \cup {Request(id, JStr("chat/send"), p) : id \in Ids, p \in ChatParams}

\* an input line: blank, not JSON at all, or JSON text with its decoded value
Lines ==
  {[kind |-> "blank", val |-> Absent], [kind |-> "notjson", val |-> Absent],
   [kind |-> "json", val |-> JNum(42)]}
  \cup {[kind |-> "json", val |-> r] : r \in Requests}

NoLine == [kind |-> "none", val |-> Absent]

(* ---------------- tool registries ---------------- *)
TOOLS ==
  << [name |-> "hello", description |-> "Say hello to someone",
      input_schema |-> [properties |-> <<"name">>, defaults |-> <<JStr("World")>>]],
     [name |-> "call_stream", description |-> "Stream count messages from 1 to n",
      input_schema |-> [properties |-> <<"count", "delay">>,
                        defaults |-> <<JNum(5), JNum(1)>>]] >>

srv_TOOLS ==
  << [name |-> "hello", description |-> "Say hello to someone",
      inputSchema |-> [properties |-> <<"name">>, defaults |-> <<JStr("World")>>]] >>

(* ---------------- handler outcomes ---------------- *)
Ok(r) == [raised |-> "none", at |-> "", resp |-> r, stream |-> FALSE]
Raise(e, where) == [raised |-> e, at |-> where, resp |-> None, stream |-> FALSE]
EnterStream == [raised |-> "none", at |-> "", resp |-> None, stream |-> TRUE]

Result(id, r) == [jsonrpc |-> "2.0", id |-> id, result |-> r]
Error(id, code, message) ==
  [jsonrpc |-> "2.0", id |-> id, error |-> [code |-> code, message |-> message]]
Chunk(k, n) ==
  [jsonrpc |-> "2.0", method |-> "chunk",
   params |-> [result |-> "Chunk " \o ToString(k) \o " of " \o ToString(n)]]

(* ---------------- state ---------------- *)
VARIABLES
  prog,     \* which server runs: "scripts/server.py" or "server.py"
  pc,       \* "await" (top of the for loop), "loop" / "sleep" (inside
            \* handle_call_stream), "crashed" (uncaught exception), "exited" (EOF)
  line,     \* the input line read last
  req,      \* the value json.loads returned last
  resp,     \* the module-level resp of the last completed dispatch
  frame,    \* the locals of the running handle_call_stream, or NoFrame
  stdout,   \* the messages written to the output stream, in order
  exc,      \* the uncaught exception that ended the process, or NoExc
  nread,    \* number of input lines read
  mark,     \* Len(stdout) when the last line was read
  registry, \* the module-level TOOLS list of the running server
  wire,     \* what sys.stdout received: message texts and line ends, in order
  stderr,   \* what sys.stderr received: log records and tracebacks
  origin,   \* for each entry of stdout, the number of the input line it was written for
  ndecoded  \* number of input lines json.loads turned into an object

vars == <<prog, pc, line, req, resp, frame, stdout, exc, nread, mark,
          registry, wire, stderr, origin, ndecoded>>

(* ---------------- src/scripts/server.py handlers ---------------- *)
handle_initialize(r) ==
  IF r.id = Absent THEN Raise("KeyError", "handle_initialize")
  ELSE Ok(Result(r.id,
                 [mcp_version |-> "1.0",
                  capabilities |-> [chat |-> TRUE, streaming |-> TRUE,
                                    tool_calls |-> TRUE, shutdown |-> TRUE]]))

\* as handle_tools_list, but listing the tools sorted by name
handle_tools_list_Sorted(r) ==
  IF r.id = Absent THEN Raise("KeyError", "handle_tools_list")
  ELSE Ok(Result(r.id, [tools |-> [k \in 1..Len(registry) |->
                                     registry[Len(registry) + 1 - k]]]))

handle_tools_list(r) ==
  IF r.id = Absent THEN Raise("KeyError", "handle_tools_list")
  ELSE Ok(Result(r.id, [tools |-> registry]))

\* as handle_tool_call, but every name other than "hello" takes the streaming branch
handle_tool_call_NoLookup(r) ==
  LET p0 == Get(r, "params", EmptyParams)
      params == IF p0 = None THEN EmptyParams ELSE p0
      name == Get(params, "name", None)
      a0 == Get(params, "arguments", EmptyArgs)
      args == IF a0 = None THEN EmptyArgs ELSE a0
  IN  IF name = JStr("hello")
        THEN IF r.id = Absent THEN Raise("KeyError", "handle_tool_call")
             ELSE Ok(Result(r.id,
                   [result |-> "Hello, " \o PyStr(Get(args, "name", JStr("World"))) \o "!"]))
      ELSE EnterStream

\* lines 90-103; the call_stream branch hands over to handle_call_stream and
\* then falls off the end of the function, which returns None
handle_tool_call(r) ==
  LET p0 == Get(r, "params", EmptyParams)
      params == IF p0 = None THEN EmptyParams ELSE p0
      name == Get(params, "name", None)
      a0 == Get(params, "arguments", EmptyArgs)
      args == IF a0 = None THEN EmptyArgs ELSE a0
  IN  IF name = JStr("hello")
        THEN IF r.id = Absent THEN Raise("KeyError", "handle_tool_call")
             ELSE Ok(Result(r.id,
                   [result |-> "Hello, " \o PyStr(Get(args, "name", JStr("World"))) \o "!"]))
      ELSE IF name = JStr("call_stream") THEN EnterStream
      ELSE IF r.id = Absent THEN Raise("KeyError", "handle_tool_call")
      ELSE Ok(Error(r.id, -32601, "Tool not found"))

\* lines 64-66 of handle_call_stream: the arguments are read from the request
\* again, without the "or {}" that handle_tool_call applies
call_stream_args(r) ==
  LET params == Get(r, "params", EmptyParams) IN
  IF params = None THEN [raised |-> "AttributeError", count |-> 0, delay |-> 0]
  ELSE LET args == Get(params, "arguments", EmptyArgs) IN
       IF args = None THEN [raised |-> "AttributeError", count |-> 0, delay |-> 0]
       ELSE LET c == PyNumber(Get(args, "count", JNum(5)))
                d == PyNumber(Get(args, "delay", JNum(1)))
            IN  IF c.raised # "none" THEN [raised |-> c.raised, count |-> 0, delay |-> 0]
                ELSE IF d.raised # "none" THEN [raised |-> d.raised, count |-> 0, delay |-> 0]
                ELSE [raised |-> "none", count |-> c.n, delay |-> d.n]

handle_chat_send(r) ==
  LET params == Get(r, "params", EmptyParams) IN
  IF params = None THEN Raise("AttributeError", "handle_chat_send")
  ELSE LET message == Get(params, "message", EmptyMessage)
           content == IF Get(message, "content", Absent) = Absent THEN ""
                      ELSE PyStr(message.content)
       IN  IF r.id = Absent THEN Raise("KeyError", "handle_chat_send")
           ELSE Ok(Result(r.id, [message |-> [role |-> "assistant",
                                              content |-> "Echo: " \o content]]))

\* as handle_shutdown, but leaving the process with sys.exit
handle_shutdown_Exit(r) == Raise("SystemExit", "handle_shutdown")

\* lines 113-115
handle_shutdown(r) == Ok(Result(Get(r, "id", None), None))

\* as UnknownMethod, but indexing req["id"] the way the other handlers do
UnknownMethod_IndexId(r) ==
  IF r.id = Absent THEN Raise("KeyError", "__main__")
  ELSE Ok(Error(r.id, -32601, "Unknown method " \o PyStr(Get(r, "method", None))))

\* as UnknownMethod, but with a fixed null id
UnknownMethod_NullId(r) ==
  Ok(Error(None, -32601, "Unknown method " \o PyStr(Get(r, "method", None))))

\* line 128 (and src/server.py lines 86-90): the reply to a method without handler
UnknownMethod(r) ==
  Ok(Error(Get(r, "id", None), -32601,
           "Unknown method " \o PyStr(Get(r, "method", None))))

\* the keys of METHOD_MAP (line 117) and the methods main compares with
\* (src/server.py lines 78-82)
MethodNames == {"initialize", "tools/list", "tools/call", "chat/send", "shutdown"}
srv_MethodNames == {"initialize", "tools/list", "tools/call"}

\* METHOD_MAP.get(method): the handler's name, or "" when the lookup gives None
METHOD_MAP(m) ==
  CASE m = JStr("initialize") -> "handle_initialize"
    [] m = JStr("tools/list") -> "handle_tools_list"
    [] m = JStr("tools/call") -> "handle_tool_call"
    [] m = JStr("chat/send") -> "handle_chat_send"
    [] m = JStr("shutdown") -> "handle_shutdown"
    [] OTHER -> ""

\* lines 127-128: look the handler up and run it
Dispatch(r) ==
  LET handler == METHOD_MAP(Get(r, "method", None)) IN
  CASE handler = "handle_initialize" -> handle_initialize(r)
    [] handler = "handle_tools_list" -> handle_tools_list(r)
    [] handler = "handle_tool_call" -> handle_tool_call(r)
    [] handler = "handle_chat_send" -> handle_chat_send(r)
    [] handler = "handle_shutdown" -> handle_shutdown(r)
    [] OTHER -> UnknownMethod(r)

(* ---------------- src/server.py handlers ---------------- *)
srv_handle_initialize(r) ==
  IF r.id = Absent THEN Raise("KeyError", "handle_initialize")
  ELSE Ok(Result(r.id, None))

srv_handle_tools_list(r) ==
  IF r.id = Absent THEN Raise("KeyError", "handle_tools_list")
  ELSE Ok(Result(r.id, [tools |-> registry]))

\* lines 46-63; params has no "or {}" here, so a null params is dereferenced
handle_call(r) ==
  LET params == Get(r, "params", EmptyParams) IN
  IF params = None THEN Raise("AttributeError", "handle_call")
  ELSE LET name == Get(params, "name", None)
           a0 == Get(params, "arguments", EmptyArgs)
           args == IF a0 = None THEN EmptyArgs ELSE a0
       IN  IF r.id = Absent THEN Raise("KeyError", "handle_call")
           ELSE IF name = JStr("hello")
             THEN Ok(Result(r.id,
                   [result |-> "Hello, " \o PyStr(Get(args, "name", JStr("World"))) \o "!"]))
           ELSE Ok(Error(r.id, -32601, "Tool not found"))

\* lines 77-90: the if/elif chain over the method
srv_Dispatch(r) ==
  LET method == Get(r, "method", None) IN
  CASE method = JStr("initialize") -> srv_handle_initialize(r)
    [] method = JStr("tools/list") -> srv_handle_tools_list(r)
    [] method = JStr("tools/call") -> handle_call(r)
    [] OTHER -> UnknownMethod(r)

(* ---------------- output and logging ---------------- *)
\* as LogStream, but the log handler is given sys.stdout
LogStream_Stdout == "stdout"

\* logging.basicConfig(stream=sys.stderr, ...): where log records go
LogStream == "stderr"

\* one record of the logger, "%(asctime)s %(levelname)s %(message)s"
Log(level, message) == [levelname |-> level, message |-> message]

\* the end of a line
NL == [nl |-> TRUE]

\* sys.stdout.write(json.dumps(resp, separators=(",", ":")) + "\n"); flush
send_response(m) == << [json |-> m, separators |-> "compact"], NL >>

\* as send_line, but printing with end=""
send_line_NoNewline(obj) == << [json |-> obj, separators |-> "default"] >>

\* print(json.dumps(obj), flush=True): the text, then the line end
send_line(obj) == << [json |-> obj, separators |-> "default"], NL >>

\* the StreamHandler writes the formatted record and a line end
LogLines(logs) == IF logs = <<>> THEN <<>> ELSE << logs[1], NL >>

\* the log records of one dispatch in src/scripts/server.py (lines 51, 57,
\* 93, 108, 114): handle_chat_send dereferences params before it logs
HandlerLog(r) ==
  LET handler == METHOD_MAP(Get(r, "method", None)) IN
  IF handler = "" THEN <<>>
  ELSE IF handler = "handle_chat_send" /\ r.params = None THEN <<>>
  ELSE << Log("INFO", handler) >>

\* the log records of one dispatch in src/server.py (lines 38, 42, 49, 85)
srv_HandlerLog(r) ==
  LET method == Get(r, "method", None) IN
  IF method \notin {JStr(m) : m \in srv_MethodNames}
    THEN << Log("WARNING", "unknown method") >>
  ELSE IF method = JStr("tools/call") /\ r.params = None THEN <<>>
  ELSE << Log("INFO", method.s) >>

\* the startup record (line 120, src/server.py line 66)
StartLog == << Log("INFO", "MCP stdio server starting") >>

\* the record for a line json.loads rejects (line 130, src/server.py line 74)
InvalidLog == << Log("ERROR", "invalid JSON") >>

\* the traceback the interpreter prints for an uncaught exception
Traceback == << [traceback |-> TRUE] >>

NoFrame == [count |-> 0, delay |-> 0, i |-> 0, live |-> FALSE, n |-> 0]
NoExc == [type |-> "none", at |-> ""]

Init ==
  /\ prog \in {"scripts/server.py", "server.py"}
  /\ pc = "await"
  /\ line = NoLine
  /\ req = None
  /\ resp = None
  /\ frame = NoFrame
  /\ stdout = IF LogStream = "stdout" THEN StartLog ELSE <<>>
  /\ wire = IF LogStream = "stdout" THEN LogLines(StartLog) ELSE <<>>
  /\ stderr = IF LogStream = "stderr" THEN StartLog ELSE <<>>
  /\ origin = IF LogStream = "stdout" THEN <<0>> ELSE <<>>
  /\ exc = NoExc
  /\ nread = 0
  /\ mark = 0
  /\ ndecoded = 0
  /\ registry = IF prog = "scripts/server.py" THEN TOOLS ELSE srv_TOOLS

\* the output of one step: the log records logs (at most one), then the
\* messages out (at most one) as the writer frames them; tb is the traceback
\* of an uncaught exception; n is the number of the input line being handled
Emit(logs, out, writer, tb, n) ==
  LET toOut == IF LogStream = "stdout" THEN logs ELSE <<>>
      toErr == IF LogStream = "stderr" THEN logs ELSE <<>>
      framed == IF out = <<>> THEN <<>>
                ELSE IF writer = "send_response" THEN send_response(out[1])
                ELSE send_line(out[1])
  IN  /\ stdout' = stdout \o toOut \o out
      /\ wire' = wire \o LogLines(toOut) \o framed
      /\ origin' = origin \o [k \in 1..(Len(toOut) + Len(out)) |-> n]
      /\ stderr' = stderr \o toErr \o tb

\* an uncaught exception: the process ends
Crash(type, where) ==
  /\ pc' = "crashed"
  /\ exc' = [type |-> type, at |-> where]
  /\ frame' = NoFrame

\* the next raw line is taken from stdin
Read(raw) ==
  /\ nread' = nread + 1
  /\ line' = raw
  /\ mark' = Len(stdout)
  /\ ndecoded' = IF raw.kind = "json" /\ raw.val.t = "obj" THEN ndecoded + 1
                 ELSE ndecoded

\* as LoopReady, but lines are taken in while a streaming call sleeps
LoopReady_Concurrent == pc \in {"await", "sleep"}

\* the for loop takes the next line only at the top of an iteration, after
\* the handler of the previous line has returned
LoopReady == pc = "await"

\* src/scripts/server.py lines 121-133: one iteration of the loop, up to the
\* end of the iteration or to the first chunk of a streaming call
DispatchLoop ==
  /\ prog = "scripts/server.py"
  /\ LoopReady
  /\ nread < MaxLines
  /\ UNCHANGED <<prog, registry>>
  /\ \E raw \in Lines :
       /\ Read(raw)
       /\ IF raw.kind # "json"
            THEN /\ Emit(IF raw.kind = "notjson" THEN InvalidLog ELSE <<>>,
                         <<>>, "send_response", <<>>, nread + 1)
                 /\ UNCHANGED <<pc, req, resp, frame, exc>>
          ELSE /\ req' = raw.val
               /\ IF raw.val.t # "obj"
                    THEN /\ Crash("AttributeError", "__main__")
                         /\ Emit(<<>>, <<>>, "send_response", Traceback, nread + 1)
                         /\ UNCHANGED resp
                  ELSE LET o == Dispatch(raw.val)
                           logs == HandlerLog(raw.val)
                       IN
                       IF o.raised # "none"
                         THEN /\ Crash(o.raised, o.at)
                              /\ Emit(logs, <<>>, "send_response", Traceback, nread + 1)
                              /\ UNCHANGED resp
                       ELSE IF o.stream
                         THEN LET a == call_stream_args(raw.val) IN
                              IF a.raised # "none"
                                THEN /\ Crash(a.raised, "handle_call_stream")
                                     /\ Emit(logs, <<>>, "send_line", Traceback, nread + 1)
                                     /\ UNCHANGED resp
                              ELSE /\ frame' = [count |-> a.count, delay |-> a.delay,
                                                i |-> 0, live |-> TRUE, n |-> nread + 1]
                                   /\ pc' = "loop"
                                   /\ Emit(logs, <<>>, "send_line", <<>>, nread + 1)
                                   /\ UNCHANGED <<resp, exc>>
                       ELSE /\ resp' = o.resp
                            /\ Emit(logs, IF o.resp # None THEN <<o.resp>> ELSE <<>>,
                                    "send_response", <<>>, nread + 1)
                            /\ UNCHANGED <<pc, frame, exc>>

\* as LoopMore, but testing i != count
LoopMore_NotEqual == frame.i # frame.count

\* line 69, for i in range(count): another pass while i is below count
LoopMore == frame.i < frame.count

\* lines 69-76: the loop body writes chunk i+1
StreamChunk ==
  /\ pc = "loop"
  /\ LoopMore
  /\ Emit(<<>>, <<Chunk(frame.i + 1, frame.count)>>, "send_line", <<>>, frame.n)
  /\ pc' = "sleep"
  /\ UNCHANGED <<prog, line, req, resp, frame, exc, nread, mark, registry, ndecoded>>

\* line 77: time.sleep(delay) raises ValueError for a negative delay
StreamSleep ==
  /\ pc = "sleep"
  /\ IF frame.delay < 0
       THEN /\ Crash("ValueError", "handle_call_stream")
            /\ Emit(<<>>, <<>>, "send_line", Traceback, frame.n)
       ELSE /\ frame' = [frame EXCEPT !.i = @ + 1]
            /\ pc' = "loop"
            /\ UNCHANGED <<exc, stdout, wire, origin, stderr>>
  /\ UNCHANGED <<prog, line, req, resp, nread, mark, registry, ndecoded>>

\* lines 80-86 and 132: the final id-bearing line; handle_call_stream and
\* handle_tool_call return None, so the loop writes nothing more
StreamFinal ==
  /\ pc = "loop"
  /\ ~LoopMore
  /\ IF req.id = Absent
       THEN /\ Crash("KeyError", "handle_call_stream")
            /\ Emit(<<>>, <<>>, "send_line", Traceback, frame.n)
            /\ UNCHANGED resp
       ELSE /\ Emit(<<>>, <<Result(req.id, [result |-> "Stream complete"])>>,
                    "send_line", <<>>, frame.n)
            /\ resp' = None
            /\ frame' = NoFrame
            /\ pc' = "await"
            /\ UNCHANGED exc
  /\ UNCHANGED <<prog, line, req, nread, mark, registry, ndecoded>>

\* src/server.py lines 67-91: one iteration of main's loop
main ==
  /\ prog = "server.py"
  /\ LoopReady
  /\ nread < MaxLines
  /\ UNCHANGED <<prog, registry>>
  /\ \E raw \in Lines :
       /\ Read(raw)
       /\ IF raw.kind # "json"
            THEN /\ Emit(IF raw.kind = "notjson" THEN InvalidLog ELSE <<>>,
                         <<>>, "send_response", <<>>, nread + 1)
                 /\ UNCHANGED <<pc, req, resp, frame, exc>>
          ELSE /\ req' = raw.val
               /\ IF raw.val.t # "obj"
                    THEN /\ Crash("AttributeError", "main")
                         /\ Emit(<<>>, <<>>, "send_response", Traceback, nread + 1)
                         /\ UNCHANGED resp
                  ELSE LET o == srv_Dispatch(raw.val)
                           logs == srv_HandlerLog(raw.val)
                       IN
                       IF o.raised # "none"
                         THEN /\ Crash(o.raised, o.at)
                              /\ Emit(logs, <<>>, "send_response", Traceback, nread + 1)
                              /\ UNCHANGED resp
                       ELSE /\ resp' = o.resp
                            /\ Emit(logs, <<o.resp>>, "send_response", <<>>, nread + 1)
                            /\ UNCHANGED <<pc, frame, exc>>

\* stdin is closed: the for loop ends and the process exits
EndOfInput ==
  /\ pc = "await"
  /\ pc' = "exited"
  /\ UNCHANGED <<prog, line, req, resp, frame, stdout, exc, nread, mark,
                 registry, wire, stderr, origin, ndecoded>>

Next == DispatchLoop \/ StreamChunk \/ StreamSleep \/ StreamFinal \/ main \/ EndOfInput

Spec == Init /\ [][Next]_vars


(* ---------------- what the claims speak about ---------------- *)
Scripts == prog = "scripts/server.py"

\* the lines written since the last input line was read
Seg == SubSeq(stdout, mark + 1, Len(stdout))

IsResponse(m) == "id" \in DOMAIN m
IsNotification(m) == "method" \in DOMAIN m
Responses(s) == SelectSeq(s, IsResponse)
Notifications(s) == SelectSeq(s, IsNotification)

\* the handling of the last line read is over: completed, or cut short
Settled == nread > 0 /\ pc \in {"await", "exited", "crashed"}

\* the last line read decoded to a JSON object
IsRequestLine == line.kind = "json" /\ line.val.t = "obj"
LineMethod == Get(line.val, "method", None)
LineId == Get(line.val, "id", None)
LineIsCall == IsRequestLine /\ LineMethod \in {JStr(m) : m \in MethodNames}
LineIsToolCall == IsRequestLine /\ LineMethod = JStr("tools/call")

\* the names in the registry of the running server
Registered == IF Scripts THEN {JStr(TOOLS[k].name) : k \in DOMAIN TOOLS}
              ELSE {JStr(srv_TOOLS[k].name) : k \in DOMAIN srv_TOOLS}
Recognized == IF Scripts THEN {JStr(m) : m \in MethodNames}
              ELSE {JStr(m) : m \in srv_MethodNames}

RECURSIVE Chunks(_, _)
Chunks(k, n) == IF k > n THEN <<>> ELSE <<Chunk(k, n)>> \o Chunks(k + 1, n)

\* C1: every request with an id whose method is initialize, tools/list,
\* tools/call, chat/send or shutdown gets exactly one response, carrying the
\* request's id, once its handling is over, also when the handler's work failed.
C1_ExactlyOneResponse ==
  (Scripts /\ Settled /\ LineIsCall /\ line.val.id # Absent) =>
     /\ Len(Responses(Seg)) = 1
     /\ Responses(Seg)[1].id = LineId

\* C2: a tools/call of call_stream with an id, count = N >= 0 and a delay
\* that is a number or left out writes exactly the chunks "Chunk 1 of N" ..
\* "Chunk N of N" in order and then one response "Stream complete" with the
\* request's id, and nothing else.
C2_StreamOutput ==
  (/\ Scripts /\ Settled /\ LineIsToolCall
   /\ line.val.id # Absent
   /\ line.val.params \notin {Absent, None}
   /\ line.val.params.name = JStr("call_stream")
   /\ line.val.params.arguments \notin {Absent, None}
   /\ line.val.params.arguments.count.t = "num"
   /\ line.val.params.arguments.count.n >= 0
   /\ line.val.params.arguments.delay.t \in {"absent", "num"}) =>
     Seg = Chunks(1, line.val.params.arguments.count.n)
           \o <<Result(LineId, [result |-> "Stream complete"])>>

\* the last line read is a tools/call with an id whose params name no
\* registered tool
UnknownToolLine ==
  /\ LineIsToolCall
  /\ line.val.id # Absent
  /\ line.val.params \notin {Absent, None}
  /\ Get(line.val.params, "name", None) \notin Registered

\* C3: a tools/call naming no registered tool writes exactly one line, the
\* error response -32601 "Tool not found" with the request's id; no chunk
\* is written and the streaming loop is never entered.
C3_ToolNotFound ==
  UnknownToolLine =>
     /\ Seg = <<Error(line.val.id, -32601, "Tool not found")>>
     /\ ~frame.live
     /\ pc \in {"await", "exited"}

C3_Witness ==
  /\ UnknownToolLine
  /\ line.val.params.name = JStr("missing_tool")
  /\ Len(Seg) = 1
  /\ Seg[1].error.message = "Tool not found"

\* the last line read is a request whose method the running server does not know
UnknownMethodLine == IsRequestLine /\ LineMethod \notin Recognized

\* C4: a request with an unrecognized method writes exactly one line, the
\* error response -32601 "Unknown method <method>" with the request's id, or
\* null when the request has none.
C4_UnknownMethod ==
  UnknownMethodLine =>
     /\ Seg = << [jsonrpc |-> "2.0",
                  id |-> IF line.val.id = Absent THEN None ELSE line.val.id,
                  error |-> [code |-> -32601,
                             message |-> "Unknown method " \o
                                (IF line.val.method = Absent THEN "None"
                                 ELSE line.val.method.s)]] >>
     /\ pc \in {"await", "exited"}

C4_Witness ==
  /\ UnknownMethodLine
  /\ line.val.method = JStr("foo")
  /\ line.val.id = Absent
  /\ Len(Seg) = 1
  /\ Seg[1].id = None
  /\ Seg[1].error.message = "Unknown method foo"

\* C5: a line that is not JSON, or is JSON but not an object, writes nothing
\* and the loop goes on to the next line.
C5_BadLineDiscarded ==
  (nread > 0 /\ (line.kind = "notjson" \/ (line.kind = "json" /\ line.val.t # "obj"))) =>
     /\ Seg = <<>>
     /\ pc # "crashed"

\* C6: no error while handling a line that is bad JSON or a request (unknown
\* method, unknown tool, failing tool body, missing id) ends the process: no
\* exception escapes the dispatch loop, which stays ready for the next line.
C6_NoErrorFatal ==
  (Scripts /\ nread > 0 /\ (line.kind = "notjson" \/ IsRequestLine)) =>
     /\ exc = NoExc
     /\ pc # "crashed"

\* C7: when the body of a streaming tool raises, the last line written for
\* the request is its one error response, carrying the request's id.
C7_ToolErrorResponse ==
  (Scripts /\ exc.at = "handle_call_stream" /\ line.val.id # Absent) =>
     /\ Len(Responses(Seg)) = 1
     /\ "error" \in DOMAIN Seg[Len(Seg)]
     /\ Seg[Len(Seg)].id = line.val.id

\* C8: a request for one of the five methods without an id member is still
\* answered, with id null, and the loop goes on.
C8_MissingIdAnswered ==
  (Settled /\ LineIsCall /\ line.val.id = Absent) =>
     /\ pc # "crashed"
     /\ Len(Responses(Seg)) = 1
     /\ Responses(Seg)[1].id = None

\* C9: a request without an id member is a notification: no response line
\* is written for it.
C9_NoReplyWithoutId ==
  (IsRequestLine /\ line.val.id = Absent) => Len(Responses(Seg)) = 0

\* C10: while call_stream waits between two chunks, the next input line can
\* be read.
C10_IntakeNotBlocked ==
  (pc = "sleep" /\ frame.delay >= 0 /\ nread < MaxLines) => ENABLED DispatchLoop

\* C11: the output stream is a sequence of complete lines, each holding one
\* whole message: every text that send_response or send_line wrote is
\* followed by its line end before the next text starts.
C11_WholeLines ==
  /\ Len(wire) = 2 * Len(stdout)
  /\ \A k \in 1..Len(stdout) :
       /\ "json" \in DOMAIN wire[2 * k - 1]
       /\ wire[2 * k - 1].json = stdout[k]
       /\ wire[2 * k] = NL

C11_Witness ==
  /\ \E j \in 1..Len(wire) :
       "separators" \in DOMAIN wire[j] /\ wire[j].separators = "default"
  /\ \E j \in 1..Len(wire) :
       "separators" \in DOMAIN wire[j] /\ wire[j].separators = "compact"

\* the registry the running server was started with
StartupRegistry == IF Scripts THEN TOOLS ELSE srv_TOOLS

IsToolsListResult(m) == "result" \in DOMAIN m /\ "tools" \in DOMAIN m.result

\* C12: the registry never changes, and every tools/list response carries
\* the descriptors the server started with, in the same order (so any two
\* tools/list responses list the same sequence).
C12_RegistryImmutable ==
  /\ registry = StartupRegistry
  /\ \A k \in 1..Len(stdout) :
       IsToolsListResult(stdout[k]) => stdout[k].result.tools = StartupRegistry

C12_Witness ==
  /\ Len(stdout) = 2
  /\ IsToolsListResult(stdout[1])
  /\ IsToolsListResult(stdout[2])
  /\ stdout[1].id # stdout[2].id
  /\ stdout[1].result = stdout[2].result

\* a response: an id and exactly one of result and error, no method
ResponseShape(m) ==
  /\ "id" \in DOMAIN m
  /\ ("result" \in DOMAIN m) # ("error" \in DOMAIN m)
  /\ "method" \notin DOMAIN m

\* a server notification: method "chunk" with params, no id
NotificationShape(m) ==
  /\ "method" \in DOMAIN m
  /\ m.method = "chunk"
  /\ "params" \in DOMAIN m
  /\ "id" \notin DOMAIN m

\* C13: every line on the output stream is a response or a chunk
\* notification, never both; log records and tracebacks are on stderr only.
C13_LineShapes ==
  /\ \A k \in 1..Len(stdout) : ResponseShape(stdout[k]) \/ NotificationShape(stdout[k])
  /\ \A j \in 1..Len(wire) :
       "levelname" \notin DOMAIN wire[j] /\ "traceback" \notin DOMAIN wire[j]
  /\ Len(stderr) >= 1
  /\ stderr[1] = StartLog[1]

C13_Witness ==
  /\ Len(Notifications(stdout)) > 0
  /\ Len(Responses(stdout)) > 1
  /\ Len(stderr) >= 3

\* the capability object the handshake is to return
Capabilities == [chat |-> TRUE, streaming |-> TRUE, tool_calls |-> TRUE, shutdown |-> TRUE]

\* C14: an initialize request with an id changes nothing in the dispatcher
\* and is answered by one response whose result is not null and advertises
\* chat, streaming, tool_calls and shutdown, with a version marker.
C14_InitializeCapabilities ==
  (Settled /\ IsRequestLine /\ LineMethod = JStr("initialize") /\ line.val.id # Absent) =>
     /\ pc \in {"await", "exited"}
     /\ frame = NoFrame
     /\ registry = StartupRegistry
     /\ Len(Seg) = 1
     /\ Seg[1].id = line.val.id
     /\ "result" \in DOMAIN Seg[1]
     /\ Seg[1].result # None
     /\ Seg[1].result.capabilities = Capabilities
     /\ "mcp_version" \in DOMAIN Seg[1].result

\* the last line read is a tools/call of call_stream with an id and an
\* arguments object
StreamCallLine ==
  /\ Scripts
  /\ LineIsToolCall
  /\ line.val.id # Absent
  /\ line.val.params \notin {Absent, None}
  /\ line.val.params.name = JStr("call_stream")
  /\ line.val.params.arguments \notin {Absent, None}

StreamComplete == Result(LineId, [result |-> "Stream complete"])

\* C15: with a negative delay call_stream still writes all N chunks in
\* order and then the "Stream complete" response, without an error.
C15_NegativeDelayAsZero ==
  (/\ Settled /\ StreamCallLine
   /\ line.val.params.arguments.count.t = "num"
   /\ line.val.params.arguments.delay.t = "num"
   /\ line.val.params.arguments.delay.n < 0) =>
     /\ exc = NoExc
     /\ Seg = Chunks(1, line.val.params.arguments.count.n) \o <<StreamComplete>>

\* the last line read is a call_stream call with count <= 0 and a delay that
\* is a number or left out
NoChunkLine ==
  /\ StreamCallLine
  /\ line.val.params.arguments.count.t = "num"
  /\ line.val.params.arguments.count.n <= 0
  /\ line.val.params.arguments.delay.t \in {"absent", "num"}

\* C16: with count <= 0 call_stream writes no chunk at any time and, once
\* done, exactly the one "Stream complete" response with the request's id.
C16_NoChunks ==
  NoChunkLine =>
     /\ Notifications(Seg) = <<>>
     /\ pc # "crashed"
     /\ Settled => Seg = <<StreamComplete>>

C16_Witness ==
  /\ NoChunkLine
  /\ line.val.params.arguments.count.n < 0
  /\ line.val.params.arguments.delay = JNum(-1)
  /\ pc = "await"
  /\ Seg = <<StreamComplete>>

\* the arguments of the last line read are left out, null, or an object
\* without the members ks
ArgumentsOmit(ks) ==
  \/ line.val.params.arguments \in {Absent, None}
  \/ \A k \in ks : line.val.params.arguments[k] = Absent

\* C17: a tools/call whose arguments are left out, null or lack a parameter
\* is served with the declared defaults: hello greets "World", call_stream
\* writes 5 chunks and then the terminal response.
C17_ArgumentDefaults ==
  (/\ Scripts /\ Settled /\ LineIsToolCall
   /\ line.val.id # Absent
   /\ line.val.params \notin {Absent, None}) =>
     /\ (line.val.params.name = JStr("hello") /\ ArgumentsOmit({"name"})) =>
           Seg = <<Result(LineId, [result |-> "Hello, World!"])>>
     /\ (line.val.params.name = JStr("call_stream") /\ ArgumentsOmit({"count", "delay"})) =>
           Seg = Chunks(1, 5) \o <<StreamComplete>>

\* C18: requests are handled one at a time in input order: the lines on the
\* output stream are grouped by the request they were written for, in the
\* order the requests were read, and while a streaming call is running it is
\* the call of the line read last (no line is read before it has finished).
C18_OneAtATime ==
  /\ \A j, k \in 1..Len(origin) : j < k => origin[j] <= origin[k]
  /\ pc \in {"loop", "sleep"} => frame.n = nread
  /\ Len(origin) = Len(stdout)

C18_Witness ==
  /\ Len(stdout) >= 3
  /\ NotificationShape(stdout[1])
  /\ origin[1] = 1
  /\ ResponseShape(stdout[Len(stdout) - 1])
  /\ origin[Len(stdout) - 1] = 1
  /\ ResponseShape(stdout[Len(stdout)])
  /\ origin[Len(stdout)] = 2

\* the last line read is a shutdown request to src/scripts/server.py
ShutdownLine == Scripts /\ IsRequestLine /\ LineMethod = JStr("shutdown")

\* a shutdown was answered before the last line was read
AfterShutdown ==
  /\ Scripts
  /\ \E k \in 1..mark : "result" \in DOMAIN stdout[k] /\ stdout[k].result = None

\* C19: a shutdown request is answered by one response with result null and
\* the request's id (null without one), changes nothing in the dispatcher and
\* does not end it: the next line can be read, and a request with an id read
\* after a shutdown gets its one response as usual.
C19_ShutdownKeepsServing ==
  /\ ShutdownLine =>
       /\ Seg = <<Result(LineId, None)>>
       /\ pc \in {"await", "exited"}
       /\ exc = NoExc
       /\ frame = NoFrame
       /\ registry = StartupRegistry
       /\ (pc = "await" /\ nread < MaxLines) => ENABLED DispatchLoop
  /\ (AfterShutdown /\ Settled /\ IsRequestLine /\ line.val.id # Absent
        /\ line.val.params = Absent) =>
       /\ Len(Seg) = 1
       /\ ResponseShape(Seg[1])
       /\ Seg[1].id = line.val.id
       /\ LineMethod = JStr("tools/list") => Seg[1].result = [tools |-> TOOLS]
       /\ LineMethod = JStr("foo") => Seg[1].error.message = "Unknown method foo"

C19_Witness ==
  /\ AfterShutdown
  /\ pc = "await"
  /\ IsRequestLine
  /\ LineMethod = JStr("tools/list")
  /\ line.val.id # Absent
  /\ Len(Seg) = 1

\* C20: every id-bearing line is written with the id of the request read
\* last at that moment (null when it has none) and for that request, and
\* there are never more id-bearing lines than decoded request lines.
C20_NoSpuriousResponse ==
  [][ /\ \A k \in (Len(stdout) + 1)..Len(stdout') :
           IsResponse(stdout'[k]) =>
              /\ stdout'[k].id = Get(req', "id", None)
              /\ origin'[k] = nread'
      /\ Len(Responses(stdout')) <= ndecoded' ]_vars

C20_Witness ==
  /\ Len(Notifications(stdout)) > 0
  /\ Len(Responses(stdout)) = 2
  /\ ndecoded = 2
  /\ Responses(stdout)[1].id = JNum(1)
  /\ Responses(stdout)[2].id = JNum(2)

====
